---- MODULE Spec2Model ----
(***************************************************************************)
(* Model of the altimeter agent (altimeter/bin/altimeterAgent.py) and of   *)
(* the MPL3115 driver it uses (altimeter/bin/mpl3115.py).                  *)
(*                                                                         *)
(* Units.  Time is in whole seconds.  Sensor quantities are kept in the    *)
(* device's own least significant bits, so that every comparison of the    *)
(* code is an integer comparison:                                          *)
(*    altitude     1/16 m     (Q16.4, 0.0625 m per LSB)                    *)
(*    pressure     1/4  Pa    (Q18.2, 0.25 Pa per LSB)                     *)
(*    temperature  1/16 degC  (Q12.4, 0.0625 degC per LSB)                 *)
(***************************************************************************)
EXTENDS Integers, Sequences, FiniteSets, TLC

(***************************************************************************)
(* Program constants.                                                      *)
(***************************************************************************)
sensorPollingInterval == 5
DATABASE_UPDATE_INTERVAL == 30
MAX_FAILED_DATA_REQUESTS == 3
CHART_UPDATE_INTERVAL == 300
SENSOR_READ_TIMEOUT == 2
\* _DEFAULT_CONFIG = 0xB8
DEFAULT_CONFIG == 184

\* _MAX_ALLOWED_PRESSURE_SPIKE = 0.34 kPa = 340 Pa, in 1/4 Pa
MAX_ALLOWED_PRESSURE_SPIKE == 1360
\* altitude bounds -1000.0 m and 20000.0 m, in 1/16 m
MIN_ALTITUDE == -16000
MAX_ALTITUDE == 320000
\* temperature bounds -40.0 degC and 85.0 degC, in 1/16 degC
MIN_TEMP == -640
MAX_TEMP == 1360

(***************************************************************************)
(* Bounds of the model.                                                    *)
(***************************************************************************)
\* wall clock reading when loop() is entered
StartTime == 1000
\* number of loop iterations explored
MaxIter == 6
\* the failure counter is a Python int; failures are explored up to here
MaxCount == 5

(***************************************************************************)
(* Register decoder (mpl3115.py).  A frame is the 5 bytes of one block     *)
(* read.                                                                   *)
(***************************************************************************)
Field20(data) == ((data[1] * 65536) + (data[2] * 256) + data[3]) \div 16

Field12(data) == ((data[4] * 256) + data[5]) \div 16

\* altitude in 1/16 m
\* variant: the field is taken from the first two bytes only
getAltitudeTwoBytes(data) ==
    LET binary_val == ((data[1] * 256) + data[2]) \div 16
    IN  IF binary_val > 2047 THEN binary_val - 4095 ELSE binary_val

getAltitude(data) ==
    LET binary_val == Field20(data)
    IN  IF binary_val > 524287 THEN binary_val - 1048575 ELSE binary_val

\* pressure in 1/4 Pa
\* variant: the pressure field is sign extended like the altitude field
getPressureSigned(data) ==
    LET binary_val == Field20(data)
    IN  IF binary_val > 524287 THEN binary_val - 1048575 ELSE binary_val

getPressure(data) == Field20(data)

\* temperature in 1/16 degC
getTemperature(data) ==
    LET binary_val == Field12(data)
    IN  IF binary_val > 2047 THEN binary_val - 4095 ELSE binary_val

(***************************************************************************)
(* Frames the simulated device returns.                                    *)
(***************************************************************************)
\* 0x00190 = 400: 25.0 m
Alt25 == <<0, 25, 0, 20, 0>>
\* 0x4E201 = 320001: one LSB above 20000.0 m
AltHigh == <<78, 32, 16, 20, 0>>
\* 0x62A20 = 404000: 101.000 kPa
Press101 == <<98, 162, 0, 20, 0>>
\* 0x62F70 = 405360: 101.000 kPa + 0.34 kPa
PressEdge == <<98, 247, 0, 20, 0>>
\* 0x62F71 = 405361: one LSB more
PressSpike == <<98, 247, 16, 20, 0>>
\* 0x140 = 320: 20.0 degC
Temp20 == <<0, 25, 0, 20, 0>>
\* 0x551 = 1361: one LSB above 85.0 degC
TempHot == <<0, 25, 0, 85, 16>>

\* dData before the sensor is read, and the content of an empty file
NoData == [date |-> -1, tempC |-> 0, altitude |-> 0, pressure |-> 0,
           status |-> "none"]

\* _OUTPUT_DATA_FILE when it does not exist
Absent == [exists |-> FALSE, data |-> NoData]

\* _OUTPUT_DATA_FILE after open(_OUTPUT_DATA_FILE, "w"), before fc.write
Truncated == [exists |-> TRUE, data |-> NoData]

\* the history of a sampling cycle before line 491 is passed
\* no exception was raised in convertData
NoError == [check |-> "none", value |-> 0, unit |-> "none"]

NoCycle == [sensor |-> "none", outFile |-> Absent, rrd |-> NoData,
            lastDatabaseUpdateTime |-> -1, failedUpdateCount |-> 0,
            error |-> NoError]

VARIABLES
    pc,                      \* position of the agent in loop()
    iter,                    \* loop iterations started
    now,                     \* the wall clock, time.time()
    currentTime,
    lastCheckForUpdateTime,
    lastDayChartUpdateTime,
    lastDatabaseUpdateTime,
    result,
    dData,
    failedUpdateCount,
    sensorOnline,
    currentPressure,
    outFile,                 \* _OUTPUT_DATA_FILE
    resetFile,               \* _ALTIMETER_RESET_FILE exists
    barIn,                   \* last two bytes written to the BAR_IN register
    rrd,                     \* round robin database: the last row appended
    chartProcs,              \* chart processes started and not yet finished
    logged,                  \* status message printed in this iteration
    failStreak,              \* history: setStatus(False) calls in a row
    cycle,                   \* history: the sampling cycle of this iteration
    drv,                     \* the mpl3115 method being executed
    bus                      \* the sensor's side of the bus

vars == << pc, iter, now, currentTime, lastCheckForUpdateTime,
           lastDayChartUpdateTime, lastDatabaseUpdateTime, result, dData,
           failedUpdateCount, sensorOnline, currentPressure, outFile,
           resetFile, barIn, rrd, chartProcs, logged, failStreak, cycle,
           drv, bus >>

\* the variables of the agent that no mpl3115 method touches
agentVars == << pc, iter, now, currentTime, lastCheckForUpdateTime,
                lastDayChartUpdateTime, lastDatabaseUpdateTime, result,
                dData, failedUpdateCount, sensorOnline, currentPressure,
                outFile, resetFile, rrd, chartProcs, logged, failStreak,
                cycle >>

(***************************************************************************)
(* Calibration encode (mpl3115.setPressureOffset).  The offset handed in   *)
(* is a pressure reading, here in 1/4 Pa; the register counts 2 Pa.        *)
(***************************************************************************)
\* Python 3 round(): to nearest, halves to even; n/d with d > 0
RoundHalfEven(n, d) ==
    LET q == n \div d
        r == n % d
    IN  IF 2 * r < d THEN q
        ELSE IF 2 * r > d THEN q + 1
        ELSE IF q % 2 = 0 THEN q ELSE q + 1

\* variant: the low byte is stored first
OffsetBytesSwapped(pascalsDiv2) ==
    << pascalsDiv2 % 256, (pascalsDiv2 % 65536) \div 256 >>

\* data = [(pascalsDiv2 & 0xFF00) >> 8, pascalsDiv2 & 0xFF]
OffsetBytes(pascalsDiv2) ==
    << (pascalsDiv2 % 65536) \div 256, pascalsDiv2 % 256 >>

\* variant: the half offset is cut off, not rounded
setPressureOffsetTruncates(offset) == OffsetBytes(offset \div 8)

setPressureOffset(offset) == OffsetBytes(RoundHalfEven(offset, 8))

\* variant: an unknown mode is scaled like mode P
PascalsDiv2DefaultScale(offset, mode) ==
    IF mode = "B"
    THEN [bound |-> TRUE, v |-> RoundHalfEven(offset * 3386389, 20000)]
    ELSE [bound |-> TRUE, v |-> RoundHalfEven(offset * 1000, 2000)]

\* the local pascalsDiv2 of setPressureOffset(offset, mode): offset in
\* tenths of an inch of mercury with scale 3386.389 for mode B, in
\* thousandths of a kilopascal with scale 1000.0 for mode P; no branch
\* binds it when the mode is neither B nor P
PascalsDiv2(offset, mode) ==
    IF mode = "B"
    THEN [bound |-> TRUE, v |-> RoundHalfEven(offset * 3386389, 20000)]
    ELSE IF mode = "P"
    THEN [bound |-> TRUE, v |-> RoundHalfEven(offset * 1000, 2000)]
    ELSE [bound |-> FALSE, v |-> 0]

(***************************************************************************)
(* Environment of one loop iteration.                                      *)
(***************************************************************************)
\* seconds a successful getSensorData may take: three polled reads
SlowRead == 6
\* seconds time.sleep may return late when the process is held up
Stall == 26
LongStall == 296
\* rrdb.updateDatabase returns True when the append succeeded
UpdateDatabaseResults == BOOLEAN

TypeOK ==
    /\ pc \in {"top", "reset", "calibrate", "lower", "read", "convert",
               "open", "write", "db", "status", "chart", "sleep", "exited",
               "crashed"}
    /\ iter \in 0..MaxIter
    /\ now \in Nat
    /\ result \in BOOLEAN
    /\ failedUpdateCount \in 0..MaxCount
    /\ sensorOnline \in BOOLEAN
    /\ outFile.exists \in BOOLEAN
    /\ resetFile \in BOOLEAN
    /\ chartProcs \in Nat
    /\ logged \in {"none", "sensor online", "sensor offline"}
    /\ failStreak \in 0..MaxCount

\* no mpl3115 method is being executed; config is self.config
\* outcome is how the last method ended: "value", "None" or "raise"
IdleDriver(config) ==
    [pc |-> "idle", call |-> "none", mode |-> "none", config |-> config,
     offset |-> 0, waited |-> 0, outcome |-> "none", error |-> "none",
     printed |-> "none", value |-> 0]

\* no bus transfer since the method was entered; status is the sensor's
\* status register and frame the last block read from it
IdleBus == [log |-> << >>, status |-> 0, frame |-> << 0, 0, 0, 0, 0 >>]

\* the state loop() is entered in: the module's globals as initialised on
\* lines 100-106, and setup() has read the reference pressure
\* variant: the agent takes the sensor to be online when it starts
sensorOnlineAtStartTrue == TRUE

\* sensorOnline = False
sensorOnlineAtStart == FALSE

InitAgent ==
    /\ pc = "top"
    /\ iter = 0
    /\ now = StartTime
    /\ currentTime = StartTime
    /\ lastCheckForUpdateTime = -1
    /\ lastDayChartUpdateTime = -1
    /\ lastDatabaseUpdateTime = -1
    /\ result = FALSE
    /\ dData = NoData
    /\ failedUpdateCount = 0
    /\ sensorOnline = sensorOnlineAtStart
    /\ currentPressure = getPressure(Press101)
    /\ barIn = setPressureOffset(getPressure(Press101))
    /\ outFile = Absent
    /\ resetFile = FALSE
    /\ rrd = NoData
    /\ chartProcs = 0
    /\ logged = "none"
    /\ failStreak = 0
    /\ cycle = NoCycle

\* the last block setup() has read is the one of the reference pressure
Init ==
    /\ InitAgent
    /\ drv = IdleDriver(DEFAULT_CONFIG)
    /\ bus = [IdleBus EXCEPT !.frame = Press101]

(***************************************************************************)
(* loop(), top of an iteration: one clock reading, then the sample check.  *)
(***************************************************************************)
\* variant: the interval compared with >= instead of >
SampleIsDueInclusive(time, last) == time - last >= sensorPollingInterval

SampleIsDue(time, last) == time - last > sensorPollingInterval

SampleDue ==
    /\ pc = "top"
    /\ iter < MaxIter
    /\ SampleIsDue(now, lastCheckForUpdateTime)
    /\ iter' = iter + 1
    /\ currentTime' = now
    /\ lastCheckForUpdateTime' = now
    /\ pc' = "reset"
    /\ cycle' = [sensor |-> "pending", outFile |-> outFile, rrd |-> rrd,
                 lastDatabaseUpdateTime |-> lastDatabaseUpdateTime,
                 failedUpdateCount |-> failedUpdateCount,
                 error |-> NoError]
    /\ UNCHANGED << now, lastDayChartUpdateTime, lastDatabaseUpdateTime,
                    result, dData, failedUpdateCount, sensorOnline,
                    currentPressure, outFile, resetFile, barIn, rrd,
                    chartProcs, logged, failStreak >>
    /\ UNCHANGED << drv, bus >>

SampleNotDue ==
    /\ pc = "top"
    /\ iter < MaxIter
    /\ ~ SampleIsDue(now, lastCheckForUpdateTime)
    /\ iter' = iter + 1
    /\ currentTime' = now
    /\ pc' = "chart"
    /\ UNCHANGED << now, lastCheckForUpdateTime, lastDayChartUpdateTime,
                    lastDatabaseUpdateTime, result, dData, failedUpdateCount,
                    sensorOnline, currentPressure, outFile, resetFile, barIn,
                    rrd, chartProcs, logged, failStreak, cycle >>
    /\ UNCHANGED << drv, bus >>

(***************************************************************************)
(* checkForAltimeterReset.  The pressure read is not inside a try block:   *)
(* when it times out the exception leaves loop() and the process ends.     *)
(***************************************************************************)
NoAltimeterReset ==
    /\ pc = "reset"
    /\ ~ resetFile
    /\ pc' = "read"
    /\ UNCHANGED << iter, now, currentTime, lastCheckForUpdateTime,
                    lastDayChartUpdateTime, lastDatabaseUpdateTime, result,
                    dData, failedUpdateCount, sensorOnline, currentPressure,
                    outFile, resetFile, barIn, rrd, chartProcs, logged,
                    failStreak, cycle >>
    /\ UNCHANGED << drv, bus >>

\* variant: the reset flag is lowered as soon as the pressure has been read
AltimeterResetLowersFirst(frames) ==
    /\ pc = "reset"
    /\ resetFile
    /\ \E f \in frames :
          drv' = [drv EXCEPT !.call = "getPressure", !.mode = "B",
                             !.outcome = "value", !.value = getPressure(f)]
    /\ resetFile' = FALSE
    /\ pc' = "calibrate"
    /\ UNCHANGED << iter, now, currentTime, lastCheckForUpdateTime,
                    lastDayChartUpdateTime, lastDatabaseUpdateTime, result,
                    dData, failedUpdateCount, sensorOnline, currentPressure,
                    outFile, barIn, rrd, chartProcs, logged, failStreak, cycle >>
    /\ UNCHANGED bus

\* the flag is up: currentBar = altitudeSensor.getPressure(mode='B'), kept
\* here in drv.value in quarters of a pascal
AltimeterReset(frames) ==
    /\ pc = "reset"
    /\ resetFile
    /\ \E f \in frames :
          drv' = [drv EXCEPT !.call = "getPressure", !.mode = "B",
                             !.outcome = "value", !.value = getPressure(f)]
    /\ pc' = "calibrate"
    /\ UNCHANGED << iter, now, currentTime, lastCheckForUpdateTime,
                    lastDayChartUpdateTime, lastDatabaseUpdateTime, result,
                    dData, failedUpdateCount, sensorOnline, currentPressure,
                    outFile, resetFile, barIn, rrd, chartProcs, logged, failStreak, cycle >>
    /\ UNCHANGED bus

\* altitudeSensor.setPressureOffset(currentBar, mode='B')
SetAltimeter ==
    /\ pc = "calibrate"
    /\ barIn' = setPressureOffset(drv.value)
    /\ drv' = [drv EXCEPT !.call = "setPressureOffset", !.offset = drv.value,
                          !.outcome = "none"]
    /\ pc' = "lower"
    /\ UNCHANGED << iter, now, currentTime, lastCheckForUpdateTime,
                    lastDayChartUpdateTime, lastDatabaseUpdateTime, result,
                    dData, failedUpdateCount, sensorOnline, currentPressure,
                    outFile, resetFile, rrd, chartProcs, logged, failStreak, cycle >>
    /\ UNCHANGED bus

\* os.remove(_ALTIMETER_RESET_FILE)
LowerResetFlag ==
    /\ pc = "lower"
    /\ resetFile' = FALSE
    /\ drv' = IdleDriver(DEFAULT_CONFIG)
    /\ pc' = "read"
    /\ UNCHANGED << iter, now, currentTime, lastCheckForUpdateTime,
                    lastDayChartUpdateTime, lastDatabaseUpdateTime, result,
                    dData, failedUpdateCount, sensorOnline, currentPressure,
                    outFile, barIn, rrd, chartProcs, logged, failStreak, cycle >>
    /\ UNCHANGED bus

AltimeterResetTimeout ==
    /\ pc = "reset"
    /\ resetFile
    /\ now' = now + SENSOR_READ_TIMEOUT
    /\ pc' = "crashed"
    /\ UNCHANGED << iter, currentTime, lastCheckForUpdateTime,
                    lastDayChartUpdateTime, lastDatabaseUpdateTime, result,
                    dData, failedUpdateCount, sensorOnline, currentPressure,
                    outFile, resetFile, barIn, rrd, chartProcs, logged,
                    failStreak, cycle >>
    /\ UNCHANGED << drv, bus >>

(***************************************************************************)
(* getSensorData: three polled reads inside one try block.                 *)
(***************************************************************************)
GetSensorData(tFrames, aFrames, pFrames, delays) ==
    /\ pc = "read"
    /\ \E ft \in tFrames, fa \in aFrames, fp \in pFrames, d \in delays :
          /\ dData' = [date |-> now, tempC |-> getTemperature(ft),
                       altitude |-> getAltitude(fa),
                       pressure |-> getPressure(fp), status |-> "online"]
          /\ now' = now + d
          /\ bus' = [bus EXCEPT !.frame = fp]
    /\ result' = TRUE
    /\ pc' = "convert"
    /\ UNCHANGED << iter, currentTime, lastCheckForUpdateTime,
                    lastDayChartUpdateTime, lastDatabaseUpdateTime,
                    failedUpdateCount, sensorOnline, currentPressure,
                    outFile, resetFile, barIn, rrd, chartProcs, logged,
                    failStreak, cycle >>
    /\ UNCHANGED drv

\* one of the three reads times out; befores are the seconds the reads
\* before it have taken, 0 when it is the first
GetSensorDataTimeout(befores) ==
    /\ pc = "read"
    /\ dData' = [NoData EXCEPT !.date = now, !.status = "offline"]
    /\ \E before \in befores : now' = now + before + SENSOR_READ_TIMEOUT
    /\ result' = FALSE
    /\ cycle' = [cycle EXCEPT !.sensor = "timeout"]
    /\ pc' = "status"
    /\ UNCHANGED << iter, currentTime, lastCheckForUpdateTime,
                    lastDayChartUpdateTime, lastDatabaseUpdateTime,
                    failedUpdateCount, sensorOnline, currentPressure,
                    outFile, resetFile, barIn, rrd, chartProcs, logged,
                    failStreak >>
    /\ UNCHANGED << drv, bus >>

(***************************************************************************)
(* convertData: altitude range, pressure spike, temperature range, in      *)
(* this order; the first violation raises and the rest is skipped.         *)
(* '%.1f' and '%.2f' render a binary fraction exactly, halves to even.     *)
(* The renderings of pressure, bar and tempF are not modelled.             *)
(***************************************************************************)
\* variant: the limits themselves are refused
AltitudeValidExclusive(altitude) ==
    ~ (altitude <= MIN_ALTITUDE \/ altitude >= MAX_ALTITUDE)

AltitudeValid(altitude) ==
    ~ (altitude < MIN_ALTITUDE \/ altitude > MAX_ALTITUDE)

PressureDelta(pressure, reference) ==
    IF pressure >= reference THEN pressure - reference
    ELSE reference - pressure

PressureValid(pressure, reference) ==
    ~ (PressureDelta(pressure, reference) > MAX_ALLOWED_PRESSURE_SPIKE)

TemperatureValid(tempC) == ~ (tempC < MIN_TEMP \/ tempC > MAX_TEMP)

\* altitude in 1/10 m, as written by '%.1f'
FormatAltitude(altitude) == RoundHalfEven(altitude * 10, 16)

\* temperature in 1/100 degC, as written by '%.2f'
FormatTempC(tempC) == RoundHalfEven(tempC * 100, 16)

\* the return value of convertData, dData and currentPressure after it
\* variant: the reference stays what it was at startup
convertDataKeepsReference(d, reference) ==
    IF ~ AltitudeValid(d.altitude)
    THEN [result |-> FALSE, dData |-> d, currentPressure |-> reference]
    ELSE IF ~ PressureValid(d.pressure, reference)
    THEN [result |-> FALSE,
          dData |-> [d EXCEPT !.altitude = FormatAltitude(@)],
          currentPressure |-> reference]
    ELSE IF ~ TemperatureValid(d.tempC)
    THEN [result |-> FALSE,
          dData |-> [d EXCEPT !.altitude = FormatAltitude(@)],
          currentPressure |-> reference]
    ELSE [result |-> TRUE,
          dData |-> [d EXCEPT !.altitude = FormatAltitude(@),
                              !.tempC = FormatTempC(@)],
          currentPressure |-> reference]

\* variant: a reading that fails the pressure check does not become the
\* reference
convertDataUpdatesOnPass(d, reference) ==
    IF ~ AltitudeValid(d.altitude)
    THEN [result |-> FALSE, dData |-> d, currentPressure |-> reference]
    ELSE IF ~ PressureValid(d.pressure, reference)
    THEN [result |-> FALSE,
          dData |-> [d EXCEPT !.altitude = FormatAltitude(@)],
          currentPressure |-> reference]
    ELSE IF ~ TemperatureValid(d.tempC)
    THEN [result |-> FALSE,
          dData |-> [d EXCEPT !.altitude = FormatAltitude(@)],
          currentPressure |-> d.pressure]
    ELSE [result |-> TRUE,
          dData |-> [d EXCEPT !.altitude = FormatAltitude(@),
                              !.tempC = FormatTempC(@)],
          currentPressure |-> d.pressure]

convertData(d, reference) ==
    IF ~ AltitudeValid(d.altitude)
    THEN [result |-> FALSE, dData |-> d, currentPressure |-> reference]
    ELSE IF ~ PressureValid(d.pressure, reference)
    THEN [result |-> FALSE,
          dData |-> [d EXCEPT !.altitude = FormatAltitude(@)],
          currentPressure |-> d.pressure]
    ELSE IF ~ TemperatureValid(d.tempC)
    THEN [result |-> FALSE,
          dData |-> [d EXCEPT !.altitude = FormatAltitude(@)],
          currentPressure |-> d.pressure]
    ELSE [result |-> TRUE,
          dData |-> [d EXCEPT !.altitude = FormatAltitude(@),
                              !.tempC = FormatTempC(@)],
          currentPressure |-> d.pressure]

\* the exception convertData raises and prints: the check named in the
\* message and the value formatted into it, altitude in 1/16 m, pDelta in
\* 1/4 Pa, and for the temperature tempF = (9.0/5.0) * tempC + 32.0, here
\* in 1/80 degree Fahrenheit
convertDataError(d, reference) ==
    IF ~ AltitudeValid(d.altitude)
    THEN [check |-> "altitude", value |-> d.altitude, unit |-> "m"]
    ELSE IF ~ PressureValid(d.pressure, reference)
    THEN [check |-> "pressure",
          value |-> PressureDelta(d.pressure, reference), unit |-> "kPa"]
    ELSE IF ~ TemperatureValid(d.tempC)
    THEN [check |-> "temperature", value |-> 9 * d.tempC + 2560,
          unit |-> "F"]
    ELSE NoError

\* variant: the result of convertData is not looked at
AfterConvertUngated(converted) == "open"

\* loop() goes on to writeOutputDataFile when convertData returned True
AfterConvert(converted) == IF converted THEN "open" ELSE "status"

ConvertData ==
    /\ pc = "convert"
    /\ LET c == convertData(dData, currentPressure)
       IN  /\ result' = c.result
           /\ dData' = c.dData
           /\ currentPressure' = c.currentPressure
           /\ cycle' = [cycle EXCEPT
                          !.sensor = IF c.result THEN "valid" ELSE "invalid",
                          !.error = convertDataError(dData, currentPressure)]
           /\ pc' = AfterConvert(c.result)
    /\ UNCHANGED << iter, now, currentTime, lastCheckForUpdateTime,
                    lastDayChartUpdateTime, lastDatabaseUpdateTime,
                    failedUpdateCount, sensorOnline, outFile, resetFile,
                    barIn, rrd, chartProcs, logged, failStreak >>
    /\ UNCHANGED << drv, bus >>

(***************************************************************************)
(* writeOutputDataFile: open(..., "w") truncates the file in place, then   *)
(* fc.write and fc.close put the sample in it.  The return value is not    *)
(* used by loop().  The output directory is taken to be writable.          *)
(***************************************************************************)
WriteOpen ==
    /\ pc = "open"
    /\ outFile' = Truncated
    /\ pc' = "write"
    /\ UNCHANGED << iter, now, currentTime, lastCheckForUpdateTime,
                    lastDayChartUpdateTime, lastDatabaseUpdateTime, result,
                    dData, failedUpdateCount, sensorOnline, currentPressure,
                    resetFile, barIn, rrd, chartProcs, logged, failStreak,
                    cycle >>
    /\ UNCHANGED << drv, bus >>

WriteData ==
    /\ pc = "write"
    /\ outFile' = [exists |-> TRUE, data |-> dData]
    /\ pc' = "db"
    /\ UNCHANGED << iter, now, currentTime, lastCheckForUpdateTime,
                    lastDayChartUpdateTime, lastDatabaseUpdateTime, result,
                    dData, failedUpdateCount, sensorOnline, currentPressure,
                    resetFile, barIn, rrd, chartProcs, logged, failStreak,
                    cycle >>
    /\ UNCHANGED << drv, bus >>

(***************************************************************************)
(* loop(), database update: reached with result = True only.  The value    *)
(* of rrdb.updateDatabase replaces result.                                 *)
(***************************************************************************)
\* variant: the database is due as soon as the clock has moved
DatabaseIsDueEveryCycle(time, last) == time > last

DatabaseIsDue(time, last) == time - last > DATABASE_UPDATE_INTERVAL

\* variant: the database step reads the clock again
UpdateDatabaseSecondReading ==
    /\ pc = "db"
    /\ result /\ DatabaseIsDue(now, lastDatabaseUpdateTime)
    /\ lastDatabaseUpdateTime' = now
    /\ \E ok \in UpdateDatabaseResults :
          /\ result' = ok
          /\ rrd' = IF ok THEN dData ELSE rrd
    /\ pc' = "status"
    /\ UNCHANGED << iter, now, currentTime, lastCheckForUpdateTime,
                    lastDayChartUpdateTime, dData, failedUpdateCount,
                    sensorOnline, currentPressure, outFile, resetFile, barIn,
                    chartProcs, logged, failStreak, cycle >>
    /\ UNCHANGED << drv, bus >>

\* variant: the time of the last update is set only when the append
\* succeeded
UpdateDatabaseStampsOnSuccess ==
    /\ pc = "db"
    /\ result /\ DatabaseIsDue(currentTime, lastDatabaseUpdateTime)
    /\ \E ok \in UpdateDatabaseResults :
          /\ result' = ok
          /\ rrd' = IF ok THEN dData ELSE rrd
          /\ lastDatabaseUpdateTime' =
                IF ok THEN currentTime ELSE lastDatabaseUpdateTime
    /\ pc' = "status"
    /\ UNCHANGED << iter, now, currentTime, lastCheckForUpdateTime,
                    lastDayChartUpdateTime, dData, failedUpdateCount,
                    sensorOnline, currentPressure, outFile, resetFile, barIn,
                    chartProcs, logged, failStreak, cycle >>
    /\ UNCHANGED << drv, bus >>

UpdateDatabase ==
    /\ pc = "db"
    /\ result /\ DatabaseIsDue(currentTime, lastDatabaseUpdateTime)
    /\ lastDatabaseUpdateTime' = currentTime
    /\ \E ok \in UpdateDatabaseResults :
          /\ result' = ok
          /\ rrd' = IF ok THEN dData ELSE rrd
    /\ pc' = "status"
    /\ UNCHANGED << iter, now, currentTime, lastCheckForUpdateTime,
                    lastDayChartUpdateTime, dData, failedUpdateCount,
                    sensorOnline, currentPressure, outFile, resetFile, barIn,
                    chartProcs, logged, failStreak, cycle >>
    /\ UNCHANGED << drv, bus >>

DatabaseNotDue ==
    /\ pc = "db"
    /\ ~ (result /\ DatabaseIsDue(currentTime, lastDatabaseUpdateTime))
    /\ pc' = "status"
    /\ UNCHANGED << iter, now, currentTime, lastCheckForUpdateTime,
                    lastDayChartUpdateTime, lastDatabaseUpdateTime, result,
                    dData, failedUpdateCount, sensorOnline, currentPressure,
                    outFile, resetFile, barIn, rrd, chartProcs, logged,
                    failStreak, cycle >>
    /\ UNCHANGED << drv, bus >>

(***************************************************************************)
(* setStatus and setStatusToOffline.                                       *)
(***************************************************************************)
\* variant: a success leaves the counter alone
CountAfterNoReset(updateSuccess, count) ==
    IF updateSuccess THEN count ELSE count + 1

\* failedUpdateCount after the if statement of setStatus
CountAfter(updateSuccess, count) ==
    IF updateSuccess THEN 0 ELSE count + 1

\* variant: a success does not set the sensor online
OnlineAfterSticky(updateSuccess, online) == online

\* sensorOnline after the if statement of setStatus
OnlineAfter(updateSuccess, online) ==
    IF updateSuccess THEN TRUE ELSE online

\* variant: the threshold is passed before the sensor is set offline
GoesOfflineLate(count) == count = MAX_FAILED_DATA_REQUESTS + 1

\* variant: the sensor is set offline one failure early
GoesOfflineEarly(count) == count = MAX_FAILED_DATA_REQUESTS - 1

\* setStatus calls setStatusToOffline
GoesOffline(count) == count = MAX_FAILED_DATA_REQUESTS

\* variant: setStatusToOffline prints its message whatever the state
OfflineMessageAlways(online) == "sensor offline"

\* setStatusToOffline prints 'sensor offline' if the sensor was online
OfflineMessage(online) == IF online THEN "sensor offline" ELSE "none"

SetStatus ==
    /\ pc = "status"
    /\ CountAfter(result, failedUpdateCount) <= MaxCount
    /\ failedUpdateCount' = CountAfter(result, failedUpdateCount)
    /\ failStreak' = IF result THEN 0 ELSE failStreak + 1
    /\ LET online == OnlineAfter(result, sensorOnline)
       IN  IF GoesOffline(failedUpdateCount')
           THEN /\ outFile' = Absent
                /\ sensorOnline' = FALSE
                /\ logged' = OfflineMessage(online)
           ELSE /\ sensorOnline' = online
                /\ logged' = IF online /\ ~ sensorOnline
                             THEN "sensor online" ELSE "none"
                /\ UNCHANGED outFile
    /\ pc' = "chart"
    /\ UNCHANGED << iter, now, currentTime, lastCheckForUpdateTime,
                    lastDayChartUpdateTime, lastDatabaseUpdateTime, result,
                    dData, currentPressure, resetFile, barIn, rrd,
                    chartProcs, cycle >>
    /\ UNCHANGED << drv, bus >>

(***************************************************************************)
(* loop(), day charts: generateDayGraphs runs in a process of its own.     *)
(* The sampling block of the iteration is over: its history is dropped.    *)
(***************************************************************************)
ChartIsDue(time, last) == time - last > CHART_UPDATE_INTERVAL

\* variant: the charts are started only after a sample that succeeded
ChartDueAfterSuccess ==
    /\ pc = "chart"
    /\ ChartIsDue(currentTime, lastDayChartUpdateTime)
    /\ IF result
       THEN /\ lastDayChartUpdateTime' = currentTime
            /\ chartProcs' = chartProcs + 1
       ELSE UNCHANGED << lastDayChartUpdateTime, chartProcs >>
    /\ pc' = "sleep"
    /\ logged' = "none"
    /\ cycle' = NoCycle
    /\ dData' = NoData
    /\ UNCHANGED << iter, now, currentTime, lastCheckForUpdateTime,
                    lastDatabaseUpdateTime, result, failedUpdateCount,
                    sensorOnline, currentPressure, outFile, resetFile, barIn,
                    rrd, failStreak >>
    /\ UNCHANGED << drv, bus >>

ChartDue ==
    /\ pc = "chart"
    /\ ChartIsDue(currentTime, lastDayChartUpdateTime)
    /\ lastDayChartUpdateTime' = currentTime
    /\ chartProcs' = chartProcs + 1
    /\ pc' = "sleep"
    /\ logged' = "none"
    /\ cycle' = NoCycle
    /\ dData' = NoData
    /\ UNCHANGED << iter, now, currentTime, lastCheckForUpdateTime,
                    lastDatabaseUpdateTime, result, failedUpdateCount,
                    sensorOnline, currentPressure, outFile, resetFile, barIn,
                    rrd, failStreak >>
    /\ UNCHANGED << drv, bus >>

ChartNotDue ==
    /\ pc = "chart"
    /\ ~ ChartIsDue(currentTime, lastDayChartUpdateTime)
    /\ pc' = "sleep"
    /\ logged' = "none"
    /\ cycle' = NoCycle
    /\ dData' = NoData
    /\ UNCHANGED << iter, now, currentTime, lastCheckForUpdateTime,
                    lastDayChartUpdateTime, lastDatabaseUpdateTime, result,
                    failedUpdateCount, sensorOnline, currentPressure,
                    outFile, resetFile, barIn, rrd, chartProcs, failStreak >>
    /\ UNCHANGED << drv, bus >>

\* a chart process ends, with or without charts
ChartDone ==
    /\ chartProcs > 0
    /\ chartProcs' = chartProcs - 1
    /\ UNCHANGED << pc, iter, now, currentTime, lastCheckForUpdateTime,
                    lastDayChartUpdateTime, lastDatabaseUpdateTime, result,
                    dData, failedUpdateCount, sensorOnline, currentPressure,
                    outFile, resetFile, barIn, rrd, logged, failStreak,
                    cycle >>
    /\ UNCHANGED << drv, bus >>

(***************************************************************************)
(* loop(), end of an iteration: sleep for what is left of the interval.    *)
(***************************************************************************)
\* variant: the time the iteration took is not subtracted
RemainingTimeFullInterval(elapsedTime) == sensorPollingInterval

RemainingTime(elapsedTime) == sensorPollingInterval - elapsedTime

Sleep(lates) ==
    /\ pc = "sleep"
    /\ LET remainingTime == RemainingTime(now - currentTime)
       IN  IF remainingTime > 0
           THEN \E late \in lates : now' = now + remainingTime + late
           ELSE now' = now
    /\ pc' = "top"
    /\ UNCHANGED << iter, currentTime, lastCheckForUpdateTime,
                    lastDayChartUpdateTime, lastDatabaseUpdateTime, result,
                    dData, failedUpdateCount, sensorOnline, currentPressure,
                    outFile, resetFile, barIn, rrd, chartProcs, logged,
                    failStreak, cycle >>
    /\ UNCHANGED << drv, bus >>

(***************************************************************************)
(* terminateAgentProcess: the handler of SIGTERM and SIGINT.  Python runs  *)
(* it between two bytecodes of the main thread, so at any position.        *)
(***************************************************************************)
Running == pc \notin {"exited", "crashed"}

TerminateAgentProcess ==
    /\ Running
    /\ outFile' = Absent
    /\ pc' = "exited"
    /\ UNCHANGED << iter, now, currentTime, lastCheckForUpdateTime,
                    lastDayChartUpdateTime, lastDatabaseUpdateTime, result,
                    dData, failedUpdateCount, sensorOnline, currentPressure,
                    resetFile, barIn, rrd, chartProcs, logged, failStreak,
                    cycle >>
    /\ UNCHANGED << drv, bus >>

\* the web page's reset button creates _ALTIMETER_RESET_FILE; the agent
\* looks at it in checkForAltimeterReset only; places are the positions of
\* the loop at which the button is clicked
RaiseResetFlag(places) ==
    /\ pc \in places
    /\ ~ resetFile
    /\ resetFile' = TRUE
    /\ UNCHANGED << pc, iter, now, currentTime, lastCheckForUpdateTime,
                    lastDayChartUpdateTime, lastDatabaseUpdateTime, result,
                    dData, failedUpdateCount, sensorOnline, currentPressure,
                    outFile, barIn, rrd, chartProcs, logged, failStreak,
                    cycle >>
    /\ UNCHANGED << drv, bus >>

(***************************************************************************)
(* The agent with a sensor that answers at once, fails to answer, or       *)
(* returns an altitude or a pressure that fails validation.                *)
(***************************************************************************)
Next ==
    \/ SampleDue
    \/ SampleNotDue
    \/ NoAltimeterReset
    \/ AltimeterReset({Press101})
    \/ SetAltimeter
    \/ LowerResetFlag
    \/ AltimeterResetTimeout
    \/ GetSensorData({Temp20}, {Alt25, AltHigh}, {Press101, PressSpike}, {0})
    \/ GetSensorDataTimeout({0})
    \/ ConvertData
    \/ WriteOpen
    \/ WriteData
    \/ UpdateDatabase
    \/ DatabaseNotDue
    \/ SetStatus
    \/ ChartDue
    \/ ChartNotDue
    \/ ChartDone
    \/ Sleep({0, 1, Stall})
    \/ TerminateAgentProcess
    \/ RaiseResetFlag({"top"})

Spec == Init /\ [][Next]_vars

(***************************************************************************)
(* The agent with a sensor that answers or not, slowly or at once, and a   *)
(* sleep that may return late by any of the stalls.                        *)
(***************************************************************************)
NextSched ==
    \/ SampleDue
    \/ SampleNotDue
    \/ NoAltimeterReset
    \/ AltimeterReset({Press101})
    \/ SetAltimeter
    \/ LowerResetFlag
    \/ AltimeterResetTimeout
    \/ GetSensorData({Temp20}, {Alt25}, {Press101}, {0, SlowRead})
    \/ GetSensorDataTimeout({0})
    \/ ConvertData
    \/ WriteOpen
    \/ WriteData
    \/ UpdateDatabase
    \/ DatabaseNotDue
    \/ SetStatus
    \/ ChartDue
    \/ ChartNotDue
    \/ ChartDone
    \/ Sleep({0, 1, Stall, LongStall})
    \/ TerminateAgentProcess
    \/ RaiseResetFlag({"top"})

SpecSched == Init /\ [][NextSched]_vars

\* blocks at and one LSB beyond the limits of convertData
\* 0x4E200 = 320000: 20000.0 m
AltEdge == << 78, 32, 0, 20, 0 >>
\* 0xFC17F, decoded as -16000: -1000.0 m
AltLowEdge == << 252, 23, 240, 20, 0 >>
\* 0xFC17E, decoded as -16001: one LSB below
AltLow == << 252, 23, 224, 20, 0 >>
\* 0x550 = 1360: 85.0 degC
TempEdge == << 0, 25, 0, 85, 0 >>
\* 0xD7F, decoded as -640: -40.0 degC
TempColdEdge == << 0, 25, 0, 215, 240 >>
\* 0xD7E, decoded as -641: one LSB below
TempCold == << 0, 25, 0, 215, 224 >>
\* 0x624D0 = 402640: 101.000 kPa - 0.34 kPa
PressLowEdge == << 98, 77, 0, 20, 0 >>
\* 0x624CF = 402639: one LSB less
PressDrop == << 98, 76, 240, 20, 0 >>

\* iterations of the loop looked at with these readings
GateIter == 2

\* the agent with a sensor whose readings lie around the limits
NextGate ==
    \/ SampleDue /\ iter < GateIter
    \/ SampleNotDue /\ iter < GateIter
    \/ NoAltimeterReset
    \/ AltimeterReset({Press101})
    \/ SetAltimeter
    \/ LowerResetFlag
    \/ AltimeterResetTimeout
    \/ GetSensorData({TempEdge, TempHot, TempColdEdge, TempCold},
                     {AltEdge, AltHigh, AltLowEdge, AltLow},
                     {Press101, PressEdge, PressSpike, PressLowEdge,
                      PressDrop}, {0})
    \/ GetSensorDataTimeout({0})
    \/ ConvertData
    \/ WriteOpen
    \/ WriteData
    \/ UpdateDatabase
    \/ DatabaseNotDue
    \/ SetStatus
    \/ ChartDue
    \/ ChartNotDue
    \/ ChartDone
    \/ Sleep({0, 1})
    \/ TerminateAgentProcess
    \/ RaiseResetFlag({"top"})

SpecGate == Init /\ [][NextGate]_vars

\* 0x634C0 = 406720 and 0x63A10 = 408080: 101.680 kPa and 102.020 kPa
Press2 == << 99, 76, 0, 20, 0 >>
Press3 == << 99, 161, 0, 20, 0 >>

\* the pressure block just read is within 0.34 kPa of the one read before
SmoothStep ==
    PressureDelta(getPressure(bus'.frame), getPressure(bus.frame))
        <= MAX_ALLOWED_PRESSURE_SPIKE

\* the agent with a sensor whose pressure moves by at most 0.34 kPa from
\* one reading to the next
NextDrift ==
    \/ SampleDue
    \/ SampleNotDue
    \/ NoAltimeterReset
    \/ AltimeterReset({Press101})
    \/ SetAltimeter
    \/ LowerResetFlag
    \/ AltimeterResetTimeout
    \/ GetSensorData({Temp20}, {Alt25, AltHigh},
                     {Press101, PressEdge, Press2, Press3}, {0})
          /\ SmoothStep
    \/ GetSensorDataTimeout({0})
    \/ ConvertData
    \/ WriteOpen
    \/ WriteData
    \/ UpdateDatabase
    \/ DatabaseNotDue
    \/ SetStatus
    \/ ChartDue
    \/ ChartNotDue
    \/ ChartDone
    \/ Sleep({0, 1})
    \/ TerminateAgentProcess
    \/ RaiseResetFlag({"top"})

SpecDrift == Init /\ [][NextDrift]_vars

\* the iteration in which the sensor delivers an outlier
OutlierAt == 2

\* the pressure block the sensor delivers in iteration i: 101.000 kPa
\* throughout, but for one reading of 102.020 kPa
SpikeSequence(i) == IF i = OutlierAt THEN Press3 ELSE Press101

\* the agent with that sensor
NextSpike ==
    \/ SampleDue
    \/ SampleNotDue
    \/ NoAltimeterReset
    \/ AltimeterReset({Press101})
    \/ SetAltimeter
    \/ LowerResetFlag
    \/ AltimeterResetTimeout
    \/ GetSensorData({Temp20}, {Alt25}, {SpikeSequence(iter)}, {0})
    \/ GetSensorDataTimeout({0})
    \/ ConvertData
    \/ WriteOpen
    \/ WriteData
    \/ UpdateDatabase
    \/ DatabaseNotDue
    \/ SetStatus
    \/ ChartDue
    \/ ChartNotDue
    \/ ChartDone
    \/ Sleep({0, 1})
    \/ TerminateAgentProcess
    \/ RaiseResetFlag({"top"})

SpecSpike == Init /\ [][NextSpike]_vars

(***************************************************************************)
(* The agent with a reset button that is clicked at any point of the loop, *)
(* and a pressure that differs from one calibration to the next.           *)
(***************************************************************************)
AnyPlace == {"top", "reset", "calibrate", "lower", "read", "convert", "open",
             "write", "db", "status", "chart", "sleep"}

NextCalibrate ==
    \/ SampleDue
    \/ SampleNotDue
    \/ NoAltimeterReset
    \/ AltimeterReset({Press101, PressEdge, Press3})
    \/ SetAltimeter
    \/ LowerResetFlag
    \/ AltimeterResetTimeout
    \/ GetSensorData({Temp20}, {Alt25}, {Press101}, {0})
    \/ GetSensorDataTimeout({0})
    \/ ConvertData
    \/ WriteOpen
    \/ WriteData
    \/ UpdateDatabase
    \/ DatabaseNotDue
    \/ SetStatus
    \/ ChartDue
    \/ ChartNotDue
    \/ ChartDone
    \/ Sleep({0, 1})
    \/ TerminateAgentProcess
    \/ RaiseResetFlag(AnyPlace)

SpecCalibrate == Init /\ [][NextCalibrate]_vars

(***************************************************************************)
(* The agent calibrating the sensor with pressure fields from all over the *)
(* 20 bits, among them the last field whose half fits the 16 bits of the   *)
(* BAR_IN register (0x7FFFB) and the first that does not (0x7FFFC).        *)
(***************************************************************************)
PressureBytes0 == {0, 25, 98, 127, 128, 255}
PressureBytes1 == {0, 76, 255}
PressureBytes2 == {0, 16, 64, 128, 176, 192, 240}
PressureFrames ==
    {<< b0, b1, b2, 20, 0 >> :
        b0 \in PressureBytes0, b1 \in PressureBytes1, b2 \in PressureBytes2}

NextRoundTrip ==
    \/ SampleDue /\ iter < GateIter
    \/ SampleNotDue /\ iter < GateIter
    \/ NoAltimeterReset
    \/ AltimeterReset(PressureFrames)
    \/ SetAltimeter
    \/ LowerResetFlag
    \/ AltimeterResetTimeout
    \/ GetSensorData({Temp20}, {Alt25}, {Press101}, {0})
    \/ GetSensorDataTimeout({0})
    \/ ConvertData
    \/ WriteOpen
    \/ WriteData
    \/ UpdateDatabase
    \/ DatabaseNotDue
    \/ SetStatus
    \/ ChartDue
    \/ ChartNotDue
    \/ ChartDone
    \/ Sleep({0, 1})
    \/ TerminateAgentProcess
    \/ RaiseResetFlag({"top"})

SpecRoundTrip == Init /\ [][NextRoundTrip]_vars

(***************************************************************************)
(* The agent with a sensor that answers the first reads of getSensorData   *)
(* slowly and then fails to answer: each read has its own timeout.         *)
(***************************************************************************)
\* seconds two reads may take that each end just before their timeout
EarlierReads == 3

NextStall ==
    \/ SampleDue
    \/ SampleNotDue
    \/ NoAltimeterReset
    \/ AltimeterReset({Press101})
    \/ SetAltimeter
    \/ LowerResetFlag
    \/ AltimeterResetTimeout
    \/ GetSensorData({Temp20}, {Alt25}, {Press101}, {0})
    \/ GetSensorDataTimeout({0, 1, EarlierReads})
    \/ ConvertData
    \/ WriteOpen
    \/ WriteData
    \/ UpdateDatabase
    \/ DatabaseNotDue
    \/ SetStatus
    \/ ChartDue
    \/ ChartNotDue
    \/ ChartDone
    \/ Sleep({0, 1})
    \/ TerminateAgentProcess
    \/ RaiseResetFlag({"top"})

SpecStall == Init /\ [][NextStall]_vars

(***************************************************************************)
(* The agent that keeps running: the steps of loop() are taken for as long *)
(* as one of them can be; signals, the reset button, the end of a chart    *)
(* process and a calibration read that times out may or may not happen.    *)
(***************************************************************************)
LoopStep ==
    \/ SampleDue
    \/ SampleNotDue
    \/ NoAltimeterReset
    \/ AltimeterReset({Press101})
    \/ SetAltimeter
    \/ LowerResetFlag
    \/ GetSensorData({Temp20}, {Alt25}, {Press101}, {0})
    \/ GetSensorDataTimeout({0})
    \/ ConvertData
    \/ WriteOpen
    \/ WriteData
    \/ UpdateDatabase
    \/ DatabaseNotDue
    \/ SetStatus
    \/ ChartDue
    \/ ChartNotDue
    \/ Sleep({0, 1})

NextRunning ==
    \/ SampleDue
    \/ SampleNotDue
    \/ NoAltimeterReset
    \/ AltimeterReset({Press101})
    \/ SetAltimeter
    \/ LowerResetFlag
    \/ AltimeterResetTimeout
    \/ GetSensorData({Temp20}, {Alt25}, {Press101}, {0})
    \/ GetSensorDataTimeout({0})
    \/ ConvertData
    \/ WriteOpen
    \/ WriteData
    \/ UpdateDatabase
    \/ DatabaseNotDue
    \/ SetStatus
    \/ ChartDue
    \/ ChartNotDue
    \/ ChartDone
    \/ Sleep({0, 1})
    \/ TerminateAgentProcess
    \/ RaiseResetFlag({"top"})

SpecRunning == Init /\ [][NextRunning]_vars /\ WF_vars(LoopStep)

\* the altitude block [0x19, 0x00, 0x00, 0x00, 0x00]
Frame19 == << 25, 0, 0, 0, 0 >>

\* the agent with a sensor whose altitude block is always Frame19
NextEndToEnd ==
    \/ SampleDue
    \/ SampleNotDue
    \/ NoAltimeterReset
    \/ AltimeterReset({Press101})
    \/ SetAltimeter
    \/ LowerResetFlag
    \/ AltimeterResetTimeout
    \/ GetSensorData({Temp20}, {Frame19}, {Press101}, {0})
    \/ GetSensorDataTimeout({0})
    \/ ConvertData
    \/ WriteOpen
    \/ WriteData
    \/ UpdateDatabase
    \/ DatabaseNotDue
    \/ SetStatus
    \/ ChartDue
    \/ ChartNotDue
    \/ ChartDone
    \/ Sleep({0, 1})
    \/ TerminateAgentProcess
    \/ RaiseResetFlag({"top"})

SpecEndToEnd == Init /\ [][NextEndToEnd]_vars

(***************************************************************************)
(* mpl3115.py: one method of the driver, transfer by transfer.             *)
(***************************************************************************)
\* device register addresses
STATUS_REG == 0
OUT_P_MSB_REG == 1
BAR_IN_MSB_REG == 20
CONTROL_REG == 38
\* bytes asked for by read_i2c_block_data
BLOCK_LENGTH == 5
\* time.sleep(0.1) between two status reads: the loop's clock in tenths
TENTHS_PER_SECOND == 10

RECURSIVE BitAnd(_, _)
BitAnd(a, b) ==
    IF a = 0 \/ b = 0 THEN 0
    ELSE (IF a % 2 = 1 /\ b % 2 = 1 THEN 1 ELSE 0)
         + 2 * BitAnd(a \div 2, b \div 2)

RECURSIVE BitOr(_, _)
BitOr(a, b) ==
    IF a = 0 THEN b
    ELSE IF b = 0 THEN a
    ELSE (IF a % 2 = 1 \/ b % 2 = 1 THEN 1 ELSE 0)
         + 2 * BitOr(a \div 2, b \div 2)

\* the byte each read method writes to the control register
ConfigReg(call, config) ==
    CASE call = "getAltitude"    -> BitOr(config, 129)
      [] call = "getPressure"    -> BitOr(BitAnd(config, 62), 1)
      [] call = "getTemperature" -> BitOr(config, 1)

\* variant: any non-zero status byte counts as data ready
DataReadyAnyBit(status) == status # 0

\* dataReady = data & 0b00001000
DataReady(status) == BitAnd(status, 8) # 0

Transfer(op, reg, data) == [op |-> op, reg |-> reg, data |-> data]

\* entry of getAltitude, getPressure(mode) or getTemperature(mode): the
\* control register is written and the sensor starts a measurement
CallRead(calls, modes, busy) ==
    /\ drv.pc = "idle"
    /\ \E call \in calls, mode \in modes, status \in busy :
          /\ drv' = [IdleDriver(drv.config) EXCEPT
                        !.pc = "poll", !.call = call,
                        !.mode = IF call = "getAltitude" THEN "none"
                                 ELSE mode]
          /\ bus' = [bus EXCEPT
                        !.log = << Transfer("write_byte", CONTROL_REG,
                                     << ConfigReg(call, drv.config) >>) >>,
                        !.status = status]
    /\ UNCHANGED agentVars
    /\ UNCHANGED barIn

\* the sensor finishes the measurement, after so many tenths of a second
SensorReady(ready, afters) ==
    /\ drv.pc = "poll"
    /\ drv.waited \in afters
    /\ ~ DataReady(bus.status)
    /\ \E status \in ready : bus' = [bus EXCEPT !.status = status]
    /\ UNCHANGED drv
    /\ UNCHANGED agentVars
    /\ UNCHANGED barIn

\* variant: the loop goes on for one more tenth of a second
PollTimedOutLate(waited) ==
    ~ (waited < SENSOR_READ_TIMEOUT * TENTHS_PER_SECOND + 1)

PollTimedOut(waited) == ~ (waited < SENSOR_READ_TIMEOUT * TENTHS_PER_SECOND)

\* pollForData, one turn of the loop: a status read, then return or sleep.
\* turns are the tenths of a second a turn that sleeps may take: 1 when
\* the read is immediate and time.sleep(0.1) returns on time
PollForData(turns) ==
    /\ drv.pc = "poll"
    /\ ~ PollTimedOut(drv.waited)
    /\ bus' = [bus EXCEPT !.log = Append(@,
                 Transfer("read_byte", STATUS_REG, << bus.status >>))]
    /\ IF DataReady(bus.status)
       THEN drv' = [drv EXCEPT !.pc = "block"]
       ELSE \E turn \in turns : drv' = [drv EXCEPT !.waited = @ + turn]
    /\ UNCHANGED agentVars
    /\ UNCHANGED barIn

\* pollForData, the loop has run for _SENSOR_READ_TIMEOUT seconds
PollTimeout ==
    /\ drv.pc = "poll"
    /\ PollTimedOut(drv.waited)
    /\ drv' = [drv EXCEPT !.pc = "done", !.outcome = "raise",
                          !.error = "smbus timeout"]
    /\ UNCHANGED bus
    /\ UNCHANGED agentVars
    /\ UNCHANGED barIn

\* the value a read method hands back for the block it read: altitude in
\* 1/16 m, pressure in 1/4 Pa (returned as inches of mercury or as
\* kilopascals), temperature in 1/16 degree C or 1/80 degree F
Decode(call, mode, data) ==
    CASE call = "getAltitude" ->
            [outcome |-> "value", printed |-> "none",
             value |-> getAltitude(data)]
      [] call = "getPressure" ->
            IF mode \in {"B", "P"}
            THEN [outcome |-> "value", printed |-> "none",
                  value |-> getPressure(data)]
            ELSE [outcome |-> "None",
                  printed |-> "invalid pressure mode option", value |-> 0]
      [] call = "getTemperature" ->
            IF mode = "F"
            THEN [outcome |-> "value", printed |-> "none",
                  value |-> 9 * getTemperature(data) + 2560]
            ELSE IF mode = "C"
            THEN [outcome |-> "value", printed |-> "none",
                  value |-> getTemperature(data)]
            ELSE [outcome |-> "None",
                  printed |-> "invalid temperature mode option",
                  value |-> 0]

\* the block read that follows pollForData, and the conversion
BlockRead(frames) ==
    /\ drv.pc = "block"
    /\ \E f \in frames :
          LET data == SubSeq(f, 1, BLOCK_LENGTH)
              r == Decode(drv.call, drv.mode, data)
          IN  /\ bus' = [bus EXCEPT
                           !.log = Append(@, Transfer("read_i2c_block_data",
                                                      OUT_P_MSB_REG, data)),
                           !.frame = f]
              /\ drv' = [drv EXCEPT !.pc = "done",
                                    !.outcome = r.outcome,
                                    !.printed = r.printed,
                                    !.value = r.value]
    /\ UNCHANGED agentVars
    /\ UNCHANGED barIn

\* setPressureOffset(offset, mode), the whole method
SetPressureOffset(offsets, modes) ==
    /\ drv.pc = "idle"
    /\ \E mode \in modes : \E offset \in offsets[mode] :
          LET pascalsDiv2 == PascalsDiv2(offset, mode)
              called == [IdleDriver(drv.config) EXCEPT
                           !.pc = "done", !.call = "setPressureOffset",
                           !.mode = mode, !.offset = offset]
          IN  IF pascalsDiv2.bound
              THEN /\ barIn' = OffsetBytes(pascalsDiv2.v)
                   /\ bus' = [bus EXCEPT !.log =
                                << Transfer("write_i2c_block_data",
                                            BAR_IN_MSB_REG,
                                            OffsetBytes(pascalsDiv2.v)) >>]
                   /\ drv' = [called EXCEPT !.outcome = "None"]
              ELSE /\ drv' = [called EXCEPT
                                !.outcome = "raise",
                                !.error = "UnboundLocalError",
                                !.printed = "invalid pressure mode option"]
                   /\ UNCHANGED << barIn, bus >>
    /\ UNCHANGED agentVars

\* the method is left and the next one may be entered
DriverReturn ==
    /\ drv.pc = "done"
    /\ drv' = IdleDriver(drv.config)
    /\ bus' = IdleBus
    /\ UNCHANGED agentVars
    /\ UNCHANGED barIn

\* the bytes a block read may deliver
Bytes0 == {0, 25, 127, 128, 255}
Bytes1 == {0, 255}
Bytes2 == {0, 16, 240}
Bytes3 == {0, 20, 127, 128, 255}
Bytes4 == {0, 240}
Frames ==
    {<< b0, b1, b2, b3, b4 >> :
        b0 \in Bytes0, b1 \in Bytes1, b2 \in Bytes2,
        b3 \in Bytes3, b4 \in Bytes4}
\* status bytes without and with the data ready bit
Busy == {0, 247}
Ready == {8, 255}
\* the unit argument of a method; X is not a unit of any of them
Modes == {"B", "P", "C", "F", "X"}
\* offsets handed to setPressureOffset with each mode
Offsets ==
    [mode \in Modes |->
        IF mode = "B" THEN {-1, 299, 388}
        ELSE {0, 3, 101325, 131071}]
\* the last turn of the polling loop before the timeout
LastPoll == SENSOR_READ_TIMEOUT * TENTHS_PER_SECOND - 1
\* self.config of the driver object
Configs == {DEFAULT_CONFIG, 0, 255}

InitDriver ==
    /\ InitAgent
    /\ drv \in {IdleDriver(config) : config \in Configs}
    /\ bus = IdleBus

NextDriver ==
    \/ CallRead({"getAltitude", "getPressure", "getTemperature"},
                Modes, Busy)
    \/ SensorReady(Ready, {0, 1, LastPoll})
    \/ PollForData({1})
    \/ PollTimeout
    \/ BlockRead(Frames)
    \/ SetPressureOffset(Offsets, Modes)
    \/ DriverReturn

SpecDriver == InitDriver /\ [][NextDriver]_vars

\* turns of the polling loop that take longer than the sleep asks for
SlowTurn == 2
StalledTurn == 7

\* the read methods with a sensor that may become ready at any time and a
\* polling loop whose turns may be slow
NextPoll ==
    \/ CallRead({"getAltitude", "getPressure", "getTemperature"},
                {"P", "C"}, {0})
    \/ SensorReady(Ready, 0 .. (LastPoll + StalledTurn))
    \/ PollForData({1, SlowTurn, StalledTurn})
    \/ PollTimeout
    \/ BlockRead({Press101})
    \/ DriverReturn

SpecPoll == InitDriver /\ [][NextPoll]_vars

\* a bus read returns, time.sleep returns, and the method goes on
SpecPollFair ==
    /\ SpecPoll
    /\ WF_vars(PollForData({1, SlowTurn, StalledTurn}))
    /\ WF_vars(PollTimeout)

(***************************************************************************)
(* Properties of the health monitor.  pc = "chart" is the position right   *)
(* after setStatus has returned; cycle holds what the sampling cycle of    *)
(* the iteration started from.                                             *)
(***************************************************************************)
\* a step of the agent that is a whole call of setStatus
SetStatusStep == pc = "status" /\ pc' = "chart"

\* C1: after the third setStatus(False) in a row the sensor is offline and
\* the output data file does not exist.
C1_ThirdFailureOffline ==
    (pc = "chart" /\ failStreak = MAX_FAILED_DATA_REQUESTS)
        => (~ sensorOnline /\ ~ outFile.exists)

\* the third failure in a row of a cycle that started with a published file
C1_Witness ==
    /\ pc = "chart"
    /\ failStreak = MAX_FAILED_DATA_REQUESTS
    /\ cycle.sensor \in {"timeout", "invalid"}
    /\ cycle.outFile.exists

\* C2: from every health state one setStatus(True) leaves the failure
\* counter at 0 and the sensor online.
C2_SuccessRecovers ==
    [][(SetStatusStep /\ result)
          => (failedUpdateCount' = 0 /\ sensorOnline')]_vars

\* a success in a cycle that started offline, at or past the threshold
C2_Witness ==
    /\ pc = "chart"
    /\ result
    /\ logged = "sensor online"
    /\ cycle.failedUpdateCount >= MAX_FAILED_DATA_REQUESTS

\* C3: while online, the first and the second failure in a row change
\* neither the status nor the output data file, and the sensor goes from
\* online to offline only in the call that brings the counter to 3.
C3_Hysteresis ==
    [][/\ (SetStatusStep /\ sensorOnline /\ failStreak' \in {1, 2})
             => (sensorOnline' /\ outFile' = outFile)
       /\ (sensorOnline /\ ~ sensorOnline')
             => /\ SetStatusStep
                /\ failedUpdateCount' = MAX_FAILED_DATA_REQUESTS
                /\ failStreak' = MAX_FAILED_DATA_REQUESTS]_vars

\* the second failure in a row, online, with the file still published
C3_Witness ==
    /\ pc = "chart"
    /\ failStreak = 2
    /\ sensorOnline
    /\ outFile.exists
    /\ cycle.sensor \in {"timeout", "invalid"}

\* C4: a counter of 3 or more means offline, and the sensor comes back
\* online only in a setStatus(True) that sets the counter to 0.
C4_OfflineInvariant ==
    /\ [](failedUpdateCount >= MAX_FAILED_DATA_REQUESTS => ~ sensorOnline)
    /\ [][(~ sensorOnline /\ sensorOnline')
             => (SetStatusStep /\ result /\ failedUpdateCount' = 0)]_vars

\* the counter has grown past the threshold while offline
C4_Witness ==
    /\ pc = "chart"
    /\ failedUpdateCount > MAX_FAILED_DATA_REQUESTS
    /\ ~ sensorOnline
    /\ cycle.sensor \in {"timeout", "invalid"}

\* C5: at the end of every sampling cycle, offline means that the output
\* data file does not exist.
C5_OfflineMeansAbsent ==
    (pc = "chart" /\ cycle.sensor # "none" /\ ~ sensorOnline)
        => ~ outFile.exists

\* C6: a cycle whose sensor read or validation failed writes nothing to
\* the output data file, appends nothing to the database, leaves the time
\* of the last database update alone and adds one to the failure counter.
C6_FailedCycle ==
    (pc = "chart" /\ cycle.sensor \in {"timeout", "invalid"})
        => /\ outFile \in {cycle.outFile, Absent}
           /\ rrd = cycle.rrd
           /\ lastDatabaseUpdateTime = cycle.lastDatabaseUpdateTime
           /\ failedUpdateCount = cycle.failedUpdateCount + 1

\* a failed validation with a file published and a database update due
C6_Witness ==
    /\ pc = "chart"
    /\ cycle.sensor = "invalid"
    /\ outFile.exists
    /\ DatabaseIsDue(currentTime, lastDatabaseUpdateTime)

\* C7: a cycle whose sensor read and validation succeeded ends with the
\* counter at 0 and the sensor online, whether or not the database append
\* succeeded.
C7_DatabaseFailureIgnored ==
    (pc = "chart" /\ cycle.sensor = "valid")
        => (failedUpdateCount = 0 /\ sensorOnline)

\* C8: no device timeout ends the agent.
C8_TimeoutNeverTerminates == pc # "crashed"

\* C9: once the agent process has ended, the output data file does not
\* exist.
C9_NoStaleSampleAfterExit == (~ Running) => ~ outFile.exists

(***************************************************************************)
(* Properties of the scheduler.                                            *)
(***************************************************************************)
\* C10: the time readings of two firings in a row of the sample, of the
\* database update and of the chart generation differ by more than the
\* interval of the activity.
C10_OncePerInterval ==
    [][/\ (lastCheckForUpdateTime' # lastCheckForUpdateTime)
             => (lastCheckForUpdateTime' - lastCheckForUpdateTime
                    > sensorPollingInterval)
       /\ (lastDatabaseUpdateTime' # lastDatabaseUpdateTime)
             => (lastDatabaseUpdateTime' - lastDatabaseUpdateTime
                    > DATABASE_UPDATE_INTERVAL)
       /\ (lastDayChartUpdateTime' # lastDayChartUpdateTime)
             => (lastDayChartUpdateTime' - lastDayChartUpdateTime
                    > CHART_UPDATE_INTERVAL)]_vars

\* each of the three activities has fired a second time
C10_Witness ==
    /\ lastCheckForUpdateTime > StartTime
    /\ lastDatabaseUpdateTime > StartTime
    /\ lastDayChartUpdateTime > StartTime


(***************************************************************************)
(* Time keeping of one iteration.                                          *)
(***************************************************************************)
\* C11: an iteration reads the clock once.  currentTime changes only at
\* the top of an iteration; the database and chart steps fire exactly when
\* their interval has passed on that reading, and every step that fires
\* stamps its last-fired time with that same reading, however far the
\* clock has moved on since.
C11_OneTimeReading ==
    [][ /\ (currentTime' # currentTime => pc = "top" /\ currentTime' = now)
        /\ (lastCheckForUpdateTime' # lastCheckForUpdateTime
               => lastCheckForUpdateTime' = currentTime')
        /\ (pc = "db" /\ pc' = "status"
               => /\ (lastDatabaseUpdateTime' # lastDatabaseUpdateTime) =
                     (result /\ currentTime - lastDatabaseUpdateTime
                                   > DATABASE_UPDATE_INTERVAL)
                  /\ lastDatabaseUpdateTime' \in
                         {lastDatabaseUpdateTime, currentTime})
        /\ (pc = "chart" /\ pc' = "sleep"
               => /\ (lastDayChartUpdateTime' # lastDayChartUpdateTime) =
                     (currentTime - lastDayChartUpdateTime
                         > CHART_UPDATE_INTERVAL)
                  /\ lastDayChartUpdateTime' \in
                         {lastDayChartUpdateTime, currentTime})
        /\ (~ (pc = "top" \/ (pc = "db" /\ pc' = "status")
                          \/ (pc = "chart" /\ pc' = "sleep"))
               => UNCHANGED << lastCheckForUpdateTime,
                               lastDatabaseUpdateTime,
                               lastDayChartUpdateTime >>) ]_vars

\* the sensor read took SlowRead seconds, and sample, database and chart
\* all fired in this iteration with the reading taken before it
C11_Witness ==
    /\ pc = "sleep"
    /\ now >= currentTime + SlowRead
    /\ lastCheckForUpdateTime = currentTime
    /\ lastDatabaseUpdateTime = currentTime
    /\ lastDayChartUpdateTime = currentTime

\* the time.sleep call asks for d seconds, or is skipped when d is 0
SleepDuration(elapsed) ==
    IF sensorPollingInterval - elapsed > 0
    THEN sensorPollingInterval - elapsed ELSE 0

\* seconds by which the sleep of the environment may overrun
Lateness == {0, 1, Stall, LongStall}

Returned(call) ==
    drv.pc = "done" /\ drv.call = call /\ drv.outcome = "value"

\* bits 23..4 of the first three bytes, and bits 15..4 of the last two
RawField20(f) == f[1] * 4096 + f[2] * 16 + f[3] \div 16
RawField12(f) == f[4] * 16 + f[5] \div 16

\* C13: getAltitude returns, in units of 0.0625 m, the two's complement
\* value of the 20-bit field f of the frame: f when f <= 0x7FFFF and
\* f - 2^20 when f > 0x7FFFF.
C13_AltitudeTwosComplement ==
    Returned("getAltitude")
      => LET f == RawField20(bus.frame)
         IN  drv.value = IF f <= 524287 THEN f ELSE f - 1048576

\* C14: getTemperature in mode C returns, in units of 0.0625 degree C, the
\* sign-extended 12-bit field f of bytes 3 and 4: f when f <= 0x7FF and
\* f - 2^12 otherwise, whatever bytes 0 to 2 of the frame are.
C14_TemperatureSignExtended ==
    Returned("getTemperature") /\ drv.mode = "C"
      => LET f == RawField12(bus.frame)
         IN  drv.value = IF f <= 2047 THEN f ELSE f - 4096

\* C15: a raw field with its top bit set decodes to a strictly negative
\* value, for the 20-bit altitude and for the 12-bit temperature.
C15_TopBitIsNegative ==
    /\ Returned("getAltitude") /\ RawField20(bus.frame) >= 524288
          => drv.value < 0
    /\ Returned("getTemperature") /\ drv.mode = "C"
          /\ RawField12(bus.frame) >= 2048
          => drv.value < 0

\* C16: getPressure returns, in units of 0.25 Pa, the 20-bit field of the
\* frame as an unsigned number: it is never negative, a field with the top
\* bit set stays above 0x7FFFF, and bytes 0, 0, 0 give 0.
C16_PressureUnsigned ==
    Returned("getPressure")
      => /\ drv.value = RawField20(bus.frame)
         /\ drv.value >= 0
         /\ (SubSeq(bus.frame, 1, 3) = << 0, 0, 0 >> => drv.value = 0)

\* a pressure read handed back a field with the top bit set
C16_Witness ==
    /\ Returned("getPressure")
    /\ drv.mode = "P"
    /\ bus.frame[1] = 255
    /\ drv.value > 524287

(***************************************************************************)
(* From the altitude block to the published sample.                        *)
(***************************************************************************)
\* the sample of this iteration has been written to the output file
Published == outFile.exists /\ outFile.data.status = "online"

\* C17: with the altitude block [0x19, 0x00, 0x00, 0x00, 0x00] the driver
\* decodes the raw value 400, which is 25.0 m; the bounds check passes and
\* the published sample shows 25.0 (altitude is in tenths of a metre once
\* it is formatted).
C17_Frame19Is25m ==
    /\ (pc = "convert" => dData.altitude = 400 /\ AltitudeValid(400))
    /\ (Published => outFile.data.altitude = 250)

\* C17, amended: the same block decodes to the raw value 102400 (the field
\* is 0x19000), which is 6400.0 m; the bounds check passes and the
\* published sample shows 6400.0.
C17_Frame19Is6400m ==
    /\ (pc = "convert"
          => dData.altitude = 102400 /\ AltitudeValid(dData.altitude))
    /\ (Published => outFile.data.altitude = 64000)

\* a sample read from that block has been published
C17_Witness ==
    /\ pc = "db"
    /\ Published
    /\ outFile.data = dData
    /\ outFile.data.date = currentTime

(***************************************************************************)
(* setPressureOffset.  drv.offset and drv.mode are the arguments of the    *)
(* call that has just ended, barIn the bytes in the BAR_IN register.       *)
(***************************************************************************)
OffsetWritten ==
    /\ drv.pc = "done"
    /\ drv.call = "setPressureOffset"
    /\ drv.mode \in {"B", "P"}

\* round(offset * unitScale / 2.0): offset is in tenths of an inch of
\* mercury for mode B and in thousandths of a kilopascal, that is in
\* pascals, for mode P
RoundedHalfOffset ==
    IF drv.mode = "B" THEN RoundHalfEven(drv.offset * 3386389, 20000)
    ELSE RoundHalfEven(drv.offset, 2)

TwoBytesWritten ==
    /\ Len(bus.log) = 1
    /\ bus.log[1].op = "write_i2c_block_data"
    /\ bus.log[1].reg = BAR_IN_MSB_REG
    /\ bus.log[1].data = barIn
    /\ Len(barIn) = 2
    /\ barIn[1] \in 0..255
    /\ barIn[2] \in 0..255

\* C18: for every offset and each of the modes B and P, setPressureOffset
\* writes exactly two bytes [MSB, LSB] to the calibration register, each
\* in 0..255, with MSB*256 + LSB = v, v being round(offset*unitScale/2.0).
C18_OffsetBytesAreV ==
    OffsetWritten
      => TwoBytesWritten /\ barIn[1] * 256 + barIn[2] = RoundedHalfOffset

\* C18, amended: the two bytes hold v modulo 2^16, which is v itself
\* exactly when 0 <= v <= 65535; a larger or a negative v is cut to its
\* low 16 bits without an error.
C18_OffsetBytesAreVMod65536 ==
    OffsetWritten
      => /\ TwoBytesWritten
         /\ barIn[1] * 256 + barIn[2] = RoundedHalfOffset % 65536
         /\ (RoundedHalfOffset \in 0..65535
               => barIn[1] * 256 + barIn[2] = RoundedHalfOffset)

\* 101.325 kPa was written: v is 50662, rounded down from 50662.5
C18_Witness ==
    /\ OffsetWritten
    /\ drv.mode = "P"
    /\ drv.offset = 101325
    /\ barIn = << 197, 230 >>

\* C19: setPressureOffset with a mode that is neither B nor P ends with an
\* error, makes no bus transfer and leaves the calibration register as it
\* was; no scale and no byte pair is used in place of the missing ones.
C19_UnknownModeFails ==
    [][ /\ drv.pc = "idle"
        /\ drv'.pc = "done"
        /\ drv'.call = "setPressureOffset"
        /\ drv'.mode \notin {"B", "P"}
        => /\ drv'.outcome = "raise"
           /\ drv'.error # "none"
           /\ bus'.log = << >>
           /\ barIn' = barIn ]_vars

\* the method was called with mode X and has raised
C19_Witness ==
    /\ drv.pc = "done"
    /\ drv.call = "setPressureOffset"
    /\ drv.mode = "X"
    /\ drv.outcome = "raise"
    /\ bus.log = << >>

(***************************************************************************)
(* Bus transfers of a read method, in the order they were made.            *)
(***************************************************************************)
ReadCalls == {"getAltitude", "getPressure", "getTemperature"}

\* transfer i of the log is a status read that saw bit 3 set
SawDataReady(i) ==
    /\ bus.log[i].op = "read_byte"
    /\ bus.log[i].reg = STATUS_REG
    /\ (bus.log[i].data[1] \div 8) % 2 = 1

\* C20: a call of getAltitude, getPressure or getTemperature makes, in
\* this order, one write to the control register, status reads, and one
\* block read of exactly 5 bytes from the output register.  The block read
\* comes right after a status read that saw the data ready bit, it is the
\* last transfer, and a call that hands back a result has made it; a call
\* that timed out has made none.
C20_ReadProtocolOrder ==
    drv.call \in ReadCalls
      => LET log == bus.log
             n == Len(log)
         IN  /\ n >= 1
             /\ log[1].op = "write_byte"
             /\ log[1].reg = CONTROL_REG
             /\ \A i \in 2..n :
                   \/ /\ log[i].op = "read_byte"
                      /\ log[i].reg = STATUS_REG
                      /\ (i < n /\ log[i + 1].op = "read_byte"
                            => ~ SawDataReady(i))
                   \/ /\ log[i].op = "read_i2c_block_data"
                      /\ log[i].reg = OUT_P_MSB_REG
                      /\ Len(log[i].data) = 5
                      /\ i = n
                      /\ i >= 3
                      /\ SawDataReady(i - 1)
             /\ (drv.pc = "done" /\ drv.outcome # "raise"
                   => log[n].op = "read_i2c_block_data")
             /\ (drv.pc = "done" /\ drv.outcome = "raise"
                   => log[n].op = "read_byte" /\ ~ SawDataReady(n))

\* a temperature read polled the status more than once, then read the block
C20_Witness ==
    /\ drv.pc = "done"
    /\ drv.call = "getTemperature"
    /\ drv.outcome = "value"
    /\ Len(bus.log) > 3
    /\ bus.log[Len(bus.log)].op = "read_i2c_block_data"

(***************************************************************************)
(* pollForData.                                                            *)
(***************************************************************************)
\* the status reads made since the method was entered
StatusReads ==
    Cardinality({i \in 1..Len(bus.log) : bus.log[i].op = "read_byte"})

\* the most status reads a poll can make: one every 100 ms for 2.0 s
MostStatusReads == SENSOR_READ_TIMEOUT * TENTHS_PER_SECOND

PollBounds ==
    drv.call \in ReadCalls
      => /\ StatusReads <= MostStatusReads
         /\ (drv.pc \in {"block", "done"} => StatusReads >= 1)
         \* it returns on the first status read that has bit 0x08 set
         /\ (drv.pc = "block"
               => /\ SawDataReady(Len(bus.log))
                  /\ \A i \in 2..(Len(bus.log) - 1) : ~ SawDataReady(i))
         \* it raises only after 2.0 s, having seen no ready bit, and no
         \* block is read after that
         /\ (drv.pc = "done" /\ drv.outcome = "raise"
               => /\ drv.error = "smbus timeout"
                  /\ drv.waited >= SENSOR_READ_TIMEOUT * TENTHS_PER_SECOND
                  /\ \A i \in 2..Len(bus.log) : ~ SawDataReady(i)
                  /\ \A i \in 1..Len(bus.log) :
                        bus.log[i].op # "read_i2c_block_data")
         \* while it polls, less than 2.0 s had passed at the last read
         /\ (drv.pc = "poll" /\ StatusReads = MostStatusReads
               => drv.waited >= SENSOR_READ_TIMEOUT * TENTHS_PER_SECOND)

\* C21: pollForData always terminates.  It returns on the first status
\* read that has the data ready bit; when the bit never shows it raises
\* the timeout error once 2.0 s have passed, after at least one and at
\* most 20 status reads, and no block is read after a timeout.
C21_BoundedPoll ==
    /\ [] PollBounds
    /\ (drv.pc = "poll") ~> (drv.pc \in {"block", "done"})

\* a poll that timed out after 20 status reads
C21_Witness ==
    /\ drv.pc = "done"
    /\ drv.outcome = "raise"
    /\ StatusReads = MostStatusReads

(***************************************************************************)
(* The validation gate.  Readings are in device units: altitude and        *)
(* temperature in sixteenths, pressure in quarters of a pascal.            *)
(***************************************************************************)
AltitudeInRange(d) == 16 * (-1000) <= d.altitude /\ d.altitude <= 16 * 20000
TemperatureInRange(d) == 16 * (-40) <= d.tempC /\ d.tempC <= 16 * 85
\* 0.34 kPa is 340 Pa
PressureNearReference(d, reference) ==
    /\ d.pressure - reference <= 4 * 340
    /\ reference - d.pressure <= 4 * 340

\* the output file holds the sample read in this iteration
FreshSample == outFile.exists /\ outFile.data.date = currentTime

FailsPressureCheck ==
    /\ pc = "convert"
    /\ AltitudeInRange(dData)
    /\ ~ PressureNearReference(dData, currentPressure)

C24_SpikeFailsOneCycle ==
    /\ (pc = "convert" /\ iter = OutlierAt => FailsPressureCheck)
    /\ (pc = "convert" /\ iter > OutlierAt => ~ FailsPressureCheck)

(***************************************************************************)
(* The health state before and in the first sampling cycles.  The first    *)
(* iteration always samples; at pc = "chart" result is the argument        *)
(* setStatus was called with and logged the message it printed.            *)
(***************************************************************************)
\* C25: sensorOnline is True before the first sampling cycle, so a first
\* cycle that succeeds prints no 'sensor online' message and three
\* failures at the start print 'sensor offline'.
C25_StartsOnline ==
    /\ (iter = 0 => sensorOnline)
    /\ (pc = "chart" /\ iter = 1 /\ result => logged # "sensor online")
    /\ (pc = "chart" /\ iter = MAX_FAILED_DATA_REQUESTS
           /\ failStreak = MAX_FAILED_DATA_REQUESTS
           => logged = "sensor offline")

\* C25, amended: sensorOnline is False before the first sampling cycle, so
\* a first cycle that succeeds prints 'sensor online' and three failures
\* at the start print nothing, though the output file is removed then.
C25_StartsOffline ==
    /\ (iter = 0 => ~ sensorOnline)
    /\ (pc = "chart" /\ iter = 1 /\ result
           => logged = "sensor online" /\ sensorOnline)
    /\ (pc = "chart" /\ iter = MAX_FAILED_DATA_REQUESTS
           /\ failStreak = MAX_FAILED_DATA_REQUESTS
           => logged = "none" /\ ~ sensorOnline /\ ~ outFile.exists)

\* the first cycle has succeeded and the message is out
C25_Witness ==
    /\ pc = "chart"
    /\ iter = 1
    /\ result
    /\ logged = "sensor online"
    /\ failedUpdateCount = 0

\* C26: whenever a reader looks at the output data file it is absent or
\* holds a complete sample, the previous one or the new one; it is never
\* empty or partly written.
C26_AtomicPublication == outFile.exists => Published

\* C27: the reset flag is looked at once in an iteration, before the sensor
\* is sampled.  If it is up, the agent reads the pressure in mode B, then
\* writes that value once to the sensor's offset register in the same mode,
\* then lowers the flag, in that order; the flag is never lowered before the
\* write.  If it is down, nothing is written to the register.
C27_CalibrationTrigger ==
    [][ /\ (pc' # pc /\ pc' = "reset" => pc = "top")
        /\ (pc' # pc /\ pc' = "read" => pc \in {"reset", "lower"})
        /\ (pc = "reset" /\ pc' = "read"
            => ~ resetFile /\ barIn' = barIn /\ drv' = drv)
        /\ (pc = "reset" /\ pc' # pc /\ resetFile
            => pc' \in {"calibrate", "crashed", "exited"})
        /\ (pc = "reset" /\ pc' = "calibrate"
            => /\ resetFile /\ resetFile'
               /\ drv'.call = "getPressure"
               /\ drv'.mode = "B"
               /\ barIn' = barIn)
        /\ (pc = "calibrate" /\ pc' # pc => pc' \in {"lower", "exited"})
        /\ (pc = "calibrate" /\ pc' = "lower"
            => /\ drv.call = "getPressure"
               /\ drv'.call = "setPressureOffset"
               /\ drv'.mode = drv.mode
               /\ drv'.offset = drv.value
               /\ barIn' = OffsetBytes(RoundHalfEven(drv.value, 8))
               /\ resetFile /\ resetFile')
        /\ (pc = "lower" /\ pc' # pc => pc' \in {"read", "exited"})
        /\ (pc = "lower" /\ pc' = "read"
            => drv.call = "setPressureOffset" /\ ~ resetFile' /\ barIn' = barIn)
        /\ (barIn' # barIn => pc = "calibrate" /\ pc' = "lower")
        /\ (resetFile /\ ~ resetFile' => pc = "lower" /\ pc' = "read") ]_vars

\* the agent has calibrated the sensor with a pressure other than the one
\* read in setup(), has lowered the flag, and the button was clicked again
C27_Witness ==
    /\ pc = "chart"
    /\ iter = 2
    /\ resetFile
    /\ barIn = OffsetBytes(RoundHalfEven(getPressure(Press3), 8))
    /\ barIn # OffsetBytes(RoundHalfEven(getPressure(Press101), 8))

\* what the sampling loop keeps of its health and of its schedule
LoopOutcome ==
    << failedUpdateCount, sensorOnline, currentPressure,
       lastCheckForUpdateTime, lastDatabaseUpdateTime >>

\* C28: the chart processes are started and not waited for.  At the chart
\* step of every iteration a process is started exactly when the chart
\* interval has passed, whatever the sample's result and the health state,
\* and the loop goes on to its sleep in the same step; starting a process,
\* and a process ending with or without charts, leave the failure counter,
\* the online state, the pressure reference and the times of the last sample
\* and of the last database update as they were.
C28_ChartFireAndForget ==
    [][ /\ (pc = "chart" /\ pc' # pc /\ pc' # "exited"
            => /\ pc' = "sleep"
               /\ (chartProcs' = chartProcs + 1)
                    = ChartIsDue(currentTime, lastDayChartUpdateTime)
               /\ chartProcs' \in {chartProcs, chartProcs + 1}
               /\ LoopOutcome' = LoopOutcome)
        /\ (chartProcs' > chartProcs => pc = "chart" /\ pc' = "sleep")
        /\ (chartProcs' < chartProcs
            => /\ LoopOutcome' = LoopOutcome
               /\ UNCHANGED << pc, iter, now, currentTime, result, outFile,
                               rrd, lastDayChartUpdateTime >>) ]_vars

\* a second chart process has been started while the first is still
\* running, in an iteration whose sample failed, with the sensor offline
C28_Witness ==
    /\ pc = "sleep"
    /\ chartProcs = 2
    /\ lastDayChartUpdateTime = currentTime
    /\ lastCheckForUpdateTime = currentTime
    /\ ~ result
    /\ ~ sensorOnline
    /\ failedUpdateCount = 2

\* the step in which loop() calls rrdb.updateDatabase
UpdateDatabaseCalled ==
    lastDatabaseUpdateTime' # lastDatabaseUpdateTime \/ rrd' # rrd

\* C29: rrdb.updateDatabase is called only in an iteration whose sample was
\* due and passed every check, with the values of that iteration, and two
\* calls are more than the database interval apart.  When the database is
\* due and the sample has failed nothing is appended and the time of the
\* last update is left alone, so that the update stays due; the next sample
\* that succeeds is appended.
C29_AppendFreshValidated ==
    [][ /\ (UpdateDatabaseCalled
            => /\ pc = "db" /\ pc' = "status"
               /\ cycle.sensor = "valid"
               /\ lastCheckForUpdateTime = currentTime
               /\ dData.date = currentTime
               /\ outFile.data = dData
               /\ currentTime - lastDatabaseUpdateTime
                    > DATABASE_UPDATE_INTERVAL
               /\ lastDatabaseUpdateTime' = currentTime
               /\ rrd' \in {rrd, dData})
        /\ (pc = "db" /\ pc' = "status"
            => UpdateDatabaseCalled
                 = (currentTime - lastDatabaseUpdateTime
                      > DATABASE_UPDATE_INTERVAL))
        /\ (pc = "status" /\ pc' = "chart" /\ cycle.sensor # "valid"
            => /\ rrd' = cycle.rrd
               /\ lastDatabaseUpdateTime' = cycle.lastDatabaseUpdateTime)
        /\ currentTime' >= currentTime ]_vars

\* the database was due when a sample failed, and the next sample, a valid
\* one, has been appended
C29_Witness ==
    /\ pc = "status"
    /\ result
    /\ failedUpdateCount = 1
    /\ cycle.sensor = "valid"
    /\ cycle.rrd.date = StartTime
    /\ currentTime - cycle.lastDatabaseUpdateTime
         > DATABASE_UPDATE_INTERVAL + sensorPollingInterval
    /\ lastDatabaseUpdateTime = currentTime
    /\ rrd = dData
    /\ rrd.date = currentTime

\* the value of the two bytes in the BAR_IN register, in units of 2 Pa
BarInValue == barIn[1] * 256 + barIn[2]

\* the register differs from the pressure it was computed from, drv.offset
\* in quarters of a pascal, by one pascal at most
WithinOnePascal ==
    /\ 8 * BarInValue - drv.offset <= 4
    /\ drv.offset - 8 * BarInValue <= 4

\* setPressureOffset has returned for the pressure getPressure gave in the
\* same mode
RoundTripDone == pc = "lower" /\ drv.call = "setPressureOffset"

C31_ReferenceUpdate ==
    [][ /\ (pc = "convert" /\ pc' \in {"open", "status"}
             /\ AltitudeInRange(dData)
            => currentPressure' = dData.pressure)
        /\ (pc = "convert" /\ ~ AltitudeInRange(dData)
            => currentPressure' = currentPressure)
        /\ (pc = "read" => currentPressure' = currentPressure)
        /\ (currentPressure' # currentPressure => pc = "convert") ]_vars

\* a reading that failed the pressure check has become the reference, and
\* the cycle has ended as a failure
C31_Witness ==
    /\ pc = "chart"
    /\ cycle.sensor = "invalid"
    /\ currentPressure = getPressure(PressSpike)
    /\ currentPressure - getPressure(Press101) > 4 * 340

\* bits 1 through 6 of a byte
UnrelatedBits(byte) == BitAnd(byte, 126)

\* C32: the control byte that getAltitude, getPressure and getTemperature
\* write has bit 0 set and bits 1 through 6 as they are in the stored
\* configuration, for every configuration; no step of a read changes the
\* stored configuration.
C32_ModeSelectMasking ==
    [][ /\ (drv.pc = "idle" /\ drv'.pc = "poll"
            => /\ bus'.log[1].op = "write_byte"
               /\ bus'.log[1].data[1] % 2 = 1
               /\ UnrelatedBits(bus'.log[1].data[1])
                    = UnrelatedBits(drv.config))
        /\ drv'.config = drv.config ]_vars


\* a read method has ended after its block read, called with a mode that
\* is not one of its units
ReadWithUnknownMode ==
    /\ drv.pc = "done"
    /\ Len(bus.log) > 0
    /\ bus.log[Len(bus.log)].op = "read_i2c_block_data"
    /\ \/ drv.call = "getPressure" /\ drv.mode \notin {"B", "P"}
       \/ drv.call = "getTemperature" /\ drv.mode \notin {"F", "C"}

\* C33: getPressure and getTemperature called with a mode that is not one
\* of their units end with an error for the caller; they do not return a
\* value, None included, as a call that succeeded does.
C33_UnknownReadModeFails ==
    ReadWithUnknownMode => drv.outcome = "raise" /\ drv.error # "none"


\* C34: in a sampling cycle that ends with a device timeout, the failure is
\* known to loop() no more than the one timeout of 2 s after the cycle's
\* time reading.
C34_StallWithinBudget ==
    pc = "status" /\ cycle.sensor = "timeout"
      => now - currentTime <= SENSOR_READ_TIMEOUT


\* C35: with iterations that take no longer than the sample interval, every
\* iteration of the loop fires the sample, also the one that starts exactly
\* one interval after the sample last fired.
C35_SampleEveryIteration ==
    [][ pc = "top" /\ iter' = iter + 1
          => /\ pc' = "reset"
             /\ lastCheckForUpdateTime' = currentTime' ]_vars


\* the append of this iteration has failed: the sample was valid and
\* result is False after the database step
AppendFailed == pc = "status" /\ cycle.sensor = "valid" /\ ~ result

\* C36: a failed append is not tried again.  The time of the last update
\* is this iteration's time reading also when the append has failed, the
\* database is left as it was, and the next append, failed or not, is made
\* in an iteration whose time reading is more than the database interval
\* later, with the sample of that iteration.
C36_NoRetryOfFailedFlush ==
    /\ [](AppendFailed
            => /\ lastDatabaseUpdateTime = currentTime
               /\ rrd = cycle.rrd
               /\ cycle.lastDatabaseUpdateTime < currentTime
                                                  - DATABASE_UPDATE_INTERVAL)
    /\ [][ pc = "db" /\ pc' = "status"
             /\ currentTime - lastDatabaseUpdateTime
                  <= DATABASE_UPDATE_INTERVAL
           => UNCHANGED << lastDatabaseUpdateTime, rrd, result >> ]_vars
    /\ [][ rrd' # rrd => rrd' = dData /\ dData.date = currentTime ]_vars

\* an append has failed at the start, the valid samples of the interval
\* after it were not appended, and the first sample after the interval is
\* in the database
C36_Witness ==
    /\ pc = "status"
    /\ result
    /\ cycle.sensor = "valid"
    /\ cycle.rrd = NoData
    /\ cycle.lastDatabaseUpdateTime = StartTime
    /\ lastDatabaseUpdateTime = currentTime
    /\ rrd.date = currentTime
    /\ iter >= 3


\* C37: once three sampling cycles in a row have failed, the sensor is
\* offline and the output data file is absent at the end of every further
\* cycle that fails; and if from some point on every cycle fails, so that
\* the run of failures stays at three or more to the end of the last
\* iteration, then from some point on the sensor is offline and the file
\* is absent.
C37_StaleDataWithdrawn ==
    /\ [](pc = "chart" /\ failStreak >= MAX_FAILED_DATA_REQUESTS
            => ~ sensorOnline /\ ~ outFile.exists)
    /\ (<>[](failStreak >= MAX_FAILED_DATA_REQUESTS /\ pc = "top")
          => <>[](~ sensorOnline /\ ~ outFile.exists))


\* C38: the error convertData reports names the check that failed and
\* carries the value that was compared with the bound, in the unit of the
\* comparison: the altitude in meters, the pressure delta in kilopascals,
\* the temperature in degrees Celsius.
C38_ErrorNamesCheckAndValue ==
    [][ pc = "convert" /\ pc' = "status"
          => IF ~ AltitudeInRange(dData)
             THEN cycle'.error = [check |-> "altitude",
                                  value |-> dData.altitude, unit |-> "m"]
             ELSE IF ~ PressureNearReference(dData, currentPressure)
             THEN /\ cycle'.error.check = "pressure"
                  /\ cycle'.error.unit = "kPa"
                  /\ cycle'.error.value
                       \in {dData.pressure - currentPressure,
                            currentPressure - dData.pressure}
                  /\ cycle'.error.value > 0
             ELSE cycle'.error = [check |-> "temperature",
                                  value |-> dData.tempC, unit |-> "C"] ]_vars


\* C39: setStatus prints 'sensor online' exactly when it changes
\* sensorOnline from False to True and 'sensor offline' exactly when it
\* changes it from True to False, and nothing else changes sensorOnline, so
\* the two messages alternate; no message is printed for a failure after
\* the third in a row, nor for a success while the sensor is online.
C39_EventsAlternate ==
    [][ /\ (pc = "status" /\ pc' = "chart"
            => /\ (logged' = "sensor online")
                    = (~ sensorOnline /\ sensorOnline')
               /\ (logged' = "sensor offline")
                    = (sensorOnline /\ ~ sensorOnline')
               /\ (failStreak' > MAX_FAILED_DATA_REQUESTS
                    => logged' = "none")
               /\ (result /\ sensorOnline => logged' = "none"))
        /\ (sensorOnline' # sensorOnline => pc = "status" /\ pc' = "chart")
        /\ (logged' # logged /\ logged' # "none"
            => pc = "status" /\ pc' = "chart") ]_vars

\* the sensor has come online, gone offline after three failures, stayed
\* silent for a fourth, and has come online again
C39_Witness ==
    /\ pc = "chart"
    /\ iter = 6
    /\ cycle.failedUpdateCount = MAX_FAILED_DATA_REQUESTS + 1
    /\ logged = "sensor online"
    /\ sensorOnline

====
